---- MODULE Spec2Model ----
(***************************************************************************)
(* Shorust: a URL shortener.  One SQLite table `urls` (id primary key,     *)
(* url unique, hits), four statements over it (src/src/db.rs), and two     *)
(* HTTP handlers (src/src/main.rs): POST / (add_url) and GET /{id}         *)
(* (get_url).  Handlers run concurrently on the server's workers; every    *)
(* SQL statement is atomic, a handler is a sequence of statements.         *)
(*                                                                         *)
(* Not modelled: failures of the environment (pool.get() or the disk       *)
(* failing) and the rate limiting middleware, which main() wraps around    *)
(* the handlers and the handlers' tests leave out.                         *)
(***************************************************************************)
EXTENDS Integers, Sequences, FiniteSets, TLC

\* ------------------------------------------------------------------ bounds

\* Handlers that can be in flight at once (the server's workers).
NumWorkers == 2

\* Requests the server receives in one behaviour.
MaxRequests == 4

\* The characters the random source is seen to draw (of Alphanumeric's 62).
Alphabet == {"a", "b"}

\* The strings submitted in the form field `url`.
FormUrls == {"http://x.io", "http://y.io", "x.io", "http://"}

Workers == 1..NumWorkers

\* --------------------------------------------------------------- constants

\* take(6) in generate_id.
IdLen == 6

\* `hits bigint default 0`.
DefaultHits == 0

\* RootUrl, as the tests construct it.
root == [url |-> "http://localhost"]

BAD_REQUEST == 400
INTERNAL_SERVER_ERROR == 500
CREATED == 201
FOUND == 302
NOT_FOUND == 404

\* ------------------------------------------------------------ Option<T>

None == [some |-> FALSE, val |-> ""]
Some(v) == [some |-> TRUE, val |-> v]

\* ------------------------------------------------------- URL validation

Letters == {"a", "b", "c", "d", "e", "f", "g", "h", "i", "j", "k", "l", "m",
            "n", "o", "p", "q", "r", "s", "t", "u", "v", "w", "x", "y", "z"}
Digits == {"0", "1", "2", "3", "4", "5", "6", "7", "8", "9"}
SchemeChars == Letters \cup Digits \cup {"+", "-", "."}

CharAt(s, i) == SubSeq(s, i, i)

\* The length of the scheme of s: the i with s[1] a letter, s[2..i] scheme
\* characters and s[i+1] = ":"; 0 when s has no scheme (the parser's
\* RelativeUrlWithoutBase).
RECURSIVE SchemeScan(_, _)
SchemeScan(s, i) ==
    IF i > Len(s) THEN 0
    ELSE IF CharAt(s, i) = ":" THEN i - 1
    ELSE IF CharAt(s, i) \in SchemeChars THEN SchemeScan(s, i + 1)
    ELSE 0

SchemeLen(s) ==
    IF Len(s) = 0 \/ CharAt(s, 1) \notin Letters THEN 0 ELSE SchemeScan(s, 2)

\* The slashes that follow the scheme's colon.
RECURSIVE SkipSlashes(_, _)
SkipSlashes(s, i) ==
    IF i <= Len(s) /\ CharAt(s, i) \in {"/", "\\"} THEN SkipSlashes(s, i + 1)
    ELSE i

\* The host of an http URL: what follows the slashes, to the next delimiter.
RECURSIVE HostEnd(_, _)
HostEnd(s, i) ==
    IF i <= Len(s) /\ CharAt(s, i) \notin {"/", "\\", "?", "#", ":"}
    THEN HostEnd(s, i + 1)
    ELSE i

\* A validator that takes any string that is not empty.
validate_url_nonempty(s) == Len(s) > 0

\* #[validate(url)]: the string parses as an absolute URL.  It has a scheme,
\* and an http URL has a host that is not empty.
validate_url(s) ==
    LET n == SchemeLen(s)
        h == SkipSlashes(s, n + 2)
    IN  /\ n > 0
        /\ SubSeq(s, 1, n) \in {"http", "https"} => HostEnd(s, h) > h

\* -------------------------------------------------------- the generator

RECURSIVE Repeat(_, _)
Repeat(c, n) == IF n = 0 THEN "" ELSE c \o Repeat(c, n - 1)

\* generate_id(): IdLen characters of the random source.  The source is
\* bounded to the streams that repeat one character of Alphabet.
generate_id == {Repeat(c, IdLen) : c \in Alphabet}

\* The path segments GET /{id} is asked for.
PathIds == generate_id \cup {"doesnotexist"}

\* ------------------------------------------------------------ the table

Row(id, url, hits) == [id |-> id, url |-> url, hits |-> hits]

\* The select without its where clause.
get_url_by_id_any(t, id) ==
    IF t = {} THEN {None} ELSE {Some(r.url) : r \in t}

\* "select url from urls where id = ? limit 1", .optional(): the results the
\* statement can give.
get_url_by_id(t, id) ==
    LET hit == {r \in t : r.id = id}
    IN  IF hit = {} THEN {None} ELSE {Some(r.url) : r \in hit}

\* The select with the wrong column in its where clause.
get_id_by_url_wrong_column(t, url) ==
    LET hit == {r \in t : r.id = url}
    IN  IF hit = {} THEN {None} ELSE {Some(r.id) : r \in hit}

\* "select id from urls where url = ? limit 1", .optional().
get_id_by_url(t, url) ==
    LET hit == {r \in t : r.url = url}
    IN  IF hit = {} THEN {None} ELSE {Some(r.id) : r \in hit}

\* A table whose id is no primary key.
constraint_ok_no_pk(t, id, url) == \A r \in t : r.url # url

\* A table whose url is not unique.
constraint_ok_no_unique(t, id, url) == \A r \in t : r.id # id

\* create_table's constraints, as an insert of (id, url) meets them:
\* `id text primary key`, `url text not null unique`.
constraint_ok(t, id, url) ==
    /\ \A r \in t : r.id # id
    /\ \A r \in t : r.url # url

\* "insert or replace into urls": the rows in the way are deleted.
add_url_replace(t, id, url) ==
    [ok |-> TRUE, id |-> id,
     table |-> {r \in t : r.id # id /\ r.url # url} \cup {Row(id, url, DefaultHits)}]

\* "insert into urls (id, url) values (?, ?)" with the generated id: the
\* statement's Result and the table after it.
add_url(t, id, url) ==
    IF constraint_ok(t, id, url)
    THEN [ok |-> TRUE, id |-> id, table |-> t \cup {Row(id, url, DefaultHits)}]
    ELSE [ok |-> FALSE, id |-> id, table |-> t]

\* The update without its where clause.
add_url_hit_all(t, id) == {[r EXCEPT !.hits = @ + 1] : r \in t}

\* "update urls set hits = hits + 1 where id = ?": the table after it.
add_url_hit(t, id) ==
    {IF r.id = id THEN [r EXCEPT !.hits = @ + 1] ELSE r : r \in t}

\* ---------------------------------------------------------------- state

VARIABLES
    urls,      \* the table: a set of rows
    pc,        \* each worker's place in its handler
    req,       \* each worker's request
    found,     \* add_url's `if let Some(u)`: what get_id_by_url returned
    id,        \* add_url's local `id`
    resp,      \* each worker's response, once its handler returned
    received,  \* history: requests received
    created,   \* history: per url, the 201 responses given
    issued,    \* history: the <<id, url>> of the 201 responses given
    wrote,     \* history: the worker's request has changed the table
    last       \* history: the last request answered, with its response

vars == <<urls, pc, req, found, id, resp, received, created, issued, wrote, last>>

NoReq == [method |-> "", arg |-> ""]
NoResp == [status |-> 0, body |-> "", location |-> ""]
Response(status, body, location) ==
    [status |-> status, body |-> body, location |-> location]

Init ==
    /\ urls = {}
    /\ pc = [w \in Workers |-> "idle"]
    /\ req = [w \in Workers |-> NoReq]
    /\ found = [w \in Workers |-> None]
    /\ id = [w \in Workers |-> ""]
    /\ resp = [w \in Workers |-> NoResp]
    /\ received = 0
    /\ created = [u \in FormUrls |-> 0]
    /\ issued = {}
    /\ wrote = [w \in Workers |-> FALSE]
    /\ last = [req |-> NoReq, resp |-> NoResp]

\* ------------------------------------------------------------- handlers

\* The server hands a request to an idle worker.
Accept(w, method, arg) ==
    /\ pc[w] = "idle"
    /\ received < MaxRequests
    /\ received' = received + 1
    /\ req' = [req EXCEPT ![w] = [method |-> method, arg |-> arg]]

\* A handler returns: Ok(response) or Err(e), answered by error_response.
Return(w, r) ==
    /\ pc' = [pc EXCEPT ![w] = "done"]
    /\ resp' = [resp EXCEPT ![w] = r]

\* AppError::ValidationErrors: 400 and the errors of the field.
ValidationErrors == Response(BAD_REQUEST, "url", "")

\* AppError::SqlError: 500 and a generic body.
SqlError == Response(INTERNAL_SERVER_ERROR, "Internal server error.", "")

\* A get_url that counts the redirect as a hit.
get_url_counting(w, path) ==
    /\ Accept(w, "GET", path)
    /\ \E url \in get_url_by_id(urls, path) :
          Return(w, IF url.some THEN Response(FOUND, "", url.val)
                    ELSE Response(NOT_FOUND, "", ""))
    /\ urls' = add_url_hit(urls, path)
    /\ UNCHANGED <<found, id, created, issued, wrote, last>>

\* The short url of an id, and the id a client reads out of it.
short_url(i) == root.url \o "/" \o i
id_of(body) == SubSeq(body, Len(root.url) + 2, Len(body))

\* get_url: one statement, then 302 to the url or 404.
get_url(w, path) ==
    /\ Accept(w, "GET", path)
    /\ \E url \in get_url_by_id(urls, path) :
          Return(w, IF url.some THEN Response(FOUND, "", url.val)
                    ELSE Response(NOT_FOUND, "", ""))
    /\ UNCHANGED <<urls, found, id, created, issued, wrote, last>>

\* add_url, to data.validate()?.
add_url_validate(w, s) ==
    /\ Accept(w, "POST", s)
    /\ IF validate_url(s)
       THEN /\ pc' = [pc EXCEPT ![w] = "get_id_by_url"]
            /\ UNCHANGED resp
       ELSE Return(w, ValidationErrors)
    /\ UNCHANGED <<urls, found, id, created, issued, wrote, last>>

\* add_url: `if let Some(u) = db::get_id_by_url(..)? { id = u }`.
add_url_lookup(w) ==
    /\ pc[w] = "get_id_by_url"
    /\ \E u \in get_id_by_url(urls, req[w].arg) :
          /\ found' = [found EXCEPT ![w] = u]
          /\ id' = [id EXCEPT ![w] = u.val]
          /\ pc' = [pc EXCEPT ![w] = IF u.some THEN "add_url_hit" ELSE "add_url"]
    /\ UNCHANGED <<urls, req, resp, received, created, issued, wrote, last>>

\* An add_url that drops the insert's error and goes on with the generated id.
add_url_insert_ignore_err(w) ==
    /\ pc[w] = "add_url"
    /\ \E g \in generate_id :
          LET res == add_url(urls, g, req[w].arg)
          IN  /\ urls' = res.table
              /\ wrote' = [wrote EXCEPT ![w] = @ \/ res.table # urls]
              /\ id' = [id EXCEPT ![w] = res.id]
              /\ pc' = [pc EXCEPT ![w] = "add_url_hit"]
    /\ UNCHANGED <<req, found, resp, received, created, issued, last>>

\* add_url: `else { id = db::add_url(..)? }`.
add_url_insert(w) ==
    /\ pc[w] = "add_url"
    /\ \E g \in generate_id :
          LET res == add_url(urls, g, req[w].arg)
          IN  /\ urls' = res.table
              /\ wrote' = [wrote EXCEPT ![w] = @ \/ res.table # urls]
              /\ IF res.ok
                 THEN /\ id' = [id EXCEPT ![w] = res.id]
                      /\ pc' = [pc EXCEPT ![w] = "add_url_hit"]
                      /\ UNCHANGED resp
                 ELSE /\ Return(w, SqlError)
                      /\ UNCHANGED id
    /\ UNCHANGED <<req, found, received, created, issued, last>>

\* add_url: `db::add_url_hit(&conn, &id)?`, then 201 and the short url.
add_url_respond(w) ==
    /\ pc[w] = "add_url_hit"
    /\ urls' = add_url_hit(urls, id[w])
    /\ wrote' = [wrote EXCEPT ![w] = @ \/ urls' # urls]
    /\ Return(w, Response(CREATED, short_url(id[w]), ""))
    /\ created' = [created EXCEPT ![req[w].arg] = @ + 1]
    /\ issued' = issued \cup {<<id_of(resp'[w].body), req[w].arg>>}
    /\ UNCHANGED <<req, found, id, received, last>>

\* The response is sent and the worker is free again.
respond(w) ==
    /\ pc[w] = "done"
    /\ last' = [req |-> req[w], resp |-> resp[w]]
    /\ pc' = [pc EXCEPT ![w] = "idle"]
    /\ req' = [req EXCEPT ![w] = NoReq]
    /\ found' = [found EXCEPT ![w] = None]
    /\ id' = [id EXCEPT ![w] = ""]
    /\ resp' = [resp EXCEPT ![w] = NoResp]
    /\ wrote' = [wrote EXCEPT ![w] = FALSE]
    /\ UNCHANGED <<urls, received, created, issued>>

\* -------------------------------------------------------- specifications

NoneInFlight == \A w \in Workers : pc[w] = "idle"

\* Requests arrive at any time.
Next ==
    \E w \in Workers :
        \/ \E path \in PathIds : get_url(w, path)
        \/ \E s \in FormUrls : add_url_validate(w, s)
        \/ add_url_lookup(w)
        \/ add_url_insert(w)
        \/ add_url_respond(w)
        \/ respond(w)

Spec == Init /\ [][Next]_vars

\* One client, which sends a request when it has the answer to the last.
SeqNext ==
    \E w \in Workers :
        \/ NoneInFlight /\ \E path \in PathIds : get_url(w, path)
        \/ NoneInFlight /\ \E s \in FormUrls : add_url_validate(w, s)
        \/ add_url_lookup(w)
        \/ add_url_insert(w)
        \/ add_url_respond(w)
        \/ respond(w)

SeqSpec == Init /\ [][SeqNext]_vars

\* ---------------------------------------------------------------- claims

\* The well-formed absolute URLs, and the malformed strings (no scheme, no
\* host), among those submitted.
AbsoluteUrls == {"http://x.io", "http://y.io"} \cap FormUrls
Malformed == {"x.io", "http://"} \cap FormUrls

RowsOf(u) == {r \in urls : r.url = u}
Post(u) == [method |-> "POST", arg |-> u]

\* Worker w holds the answer to a POST of u, and the request answered just
\* before it was a POST of u too.
SecondOfTwo(w, u) ==
    /\ pc[w] = "done"
    /\ req[w] = Post(u)
    /\ last.req = Post(u)

\* C1 as stated: under sequential requests, a well-formed url submitted twice
\* in a row is answered 201 both times with the same short url, and the table
\* then holds exactly one row for it.
C1_TwiceSameId ==
    \A w \in Workers : \A u \in AbsoluteUrls :
        SecondOfTwo(w, u) =>
            /\ last.resp.status = CREATED
            /\ resp[w].status = CREATED
            /\ resp[w].body = last.resp.body
            /\ Cardinality(RowsOf(u)) = 1

\* C1 as amended: under sequential requests, each of two submissions in a row
\* of a well-formed url is answered 201, or 500 when the generated id is taken
\* by another url's row; when the first is answered 201 so is the second, with
\* the same short url; a 201 leaves exactly one row for the url and a 500
\* leaves none.
C1_TwiceSameIdUnlessCollision ==
    \A w \in Workers : \A u \in AbsoluteUrls :
        SecondOfTwo(w, u) =>
            /\ last.resp.status \in {CREATED, INTERNAL_SERVER_ERROR}
            /\ resp[w].status \in {CREATED, INTERNAL_SERVER_ERROR}
            /\ last.resp.status = CREATED =>
                  /\ resp[w].status = CREATED
                  /\ resp[w].body = last.resp.body
            /\ resp[w].status = CREATED =>
                  /\ Cardinality(RowsOf(u)) = 1
                  /\ \A r \in RowsOf(u) : resp[w].body = short_url(r.id)
            /\ resp[w].status = INTERNAL_SERVER_ERROR =>
                  /\ RowsOf(u) = {}
                  /\ urls # {}

C1_Witness ==
    \E w \in Workers : \E u \in AbsoluteUrls :
        /\ SecondOfTwo(w, u)
        /\ last.resp.status = CREATED
        /\ resp[w] = last.resp
        /\ \E r \in urls : r.url = u /\ r.hits = 2

\* Worker w takes the step that is its whole get_url.
GetStep(w) == pc[w] = "idle" /\ pc'[w] = "done" /\ req'[w].method = "GET"

\* C2: a GET of an id that a 201 has carried for url u is answered 302 with
\* Location u, whatever was requested in between.
C2_IssuedIdRedirects ==
    [][\A w \in Workers : GetStep(w) =>
          \A p \in issued : p[1] = req'[w].arg =>
              /\ resp'[w].status = FOUND
              /\ resp'[w].location = p[2]]_vars

C2_Witness ==
    \E w \in Workers :
        /\ pc[w] = "done"
        /\ req[w].method = "GET"
        /\ resp[w].status = FOUND
        /\ <<req[w].arg, resp[w].location>> \in issued
        /\ Cardinality(issued) = 2

\* C3: a POST of a malformed string is answered 400 at once and its request
\* changes nothing in the table.
C3_MalformedRejected ==
    [][\A w \in Workers :
          /\ (pc[w] = "idle" /\ req'[w].method = "POST" /\ req'[w].arg \in Malformed) =>
                /\ pc'[w] = "done"
                /\ resp'[w].status = BAD_REQUEST
                /\ urls' = urls
          /\ (req'[w].method = "POST" /\ req'[w].arg \in Malformed) => ~wrote'[w]]_vars

C3_Witness ==
    \E w \in Workers :
        /\ pc[w] = "done"
        /\ req[w] = Post("x.io")
        /\ resp[w].status = BAD_REQUEST
        /\ urls # {}

\* C4: a GET of an id that no row has is answered 404 with an empty body.
C4_UnknownIdNotFound ==
    [][\A w \in Workers :
          (GetStep(w) /\ \A r \in urls : r.id # req'[w].arg) =>
              resp'[w] = Response(NOT_FOUND, "", "")]_vars

C4_Witness ==
    \E w \in Workers :
        /\ pc[w] = "done"
        /\ req[w].method = "GET"
        /\ resp[w].status = NOT_FOUND
        /\ urls # {}
        /\ \A r \in urls : r.id # req[w].arg

\* C5: the table never holds two rows with the same url, nor two rows with the
\* same id.
C5_UrlAndIdUnique ==
    \A r1 \in urls : \A r2 \in urls :
        (r1.id = r2.id \/ r1.url = r2.url) => r1 = r2

C5_Witness ==
    /\ Cardinality(urls) = 2
    /\ \E w \in Workers : pc[w] = "done" /\ resp[w].status = INTERNAL_SERVER_ERROR

\* C6: every step keeps every row, with its id and url, and with hits that
\* did not go down.
C6_RowsKept ==
    [][\A r \in urls : \E r2 \in urls' :
          r2.id = r.id /\ r2.url = r.url /\ r2.hits >= r.hits]_vars

C6_Witness ==
    /\ Cardinality(urls) = 2
    /\ \E r \in urls : r.hits >= 2

\* Workers w1 and w2 both looked u up, found no row, and both went on to
\* their insert.
Raced(w1, w2, u) ==
    /\ w1 # w2
    /\ req[w1] = Post(u) /\ req[w2] = Post(u)
    /\ ~found[w1].some /\ ~found[w2].some
    /\ pc[w1] \in {"add_url_hit", "done"}
    /\ pc[w2] \in {"add_url_hit", "done"}

C8_InsertFailureSurfaced ==
    [][\A w \in Workers :
          /\ (pc[w] = "add_url" /\ pc'[w] # "add_url") =>
                IF pc'[w] = "add_url_hit"
                THEN /\ \A r \in urls : r.id # id'[w] /\ r.url # req[w].arg
                     /\ urls' = urls \cup {Row(id'[w], req[w].arg, DefaultHits)}
                ELSE /\ pc'[w] = "done"
                     /\ resp'[w].status = INTERNAL_SERVER_ERROR
                     /\ urls' = urls
                     /\ urls # {}
          /\ resp'[w].status = INTERNAL_SERVER_ERROR => ~wrote'[w]]_vars

C8_Witness ==
    \E w \in Workers :
        /\ pc[w] = "done"
        /\ req[w].method = "POST"
        /\ resp[w].status = INTERNAL_SERVER_ERROR
        /\ RowsOf(req[w].arg) = {}
        /\ \E r \in urls : r.hits = 1

\* C9: a GET, of a known id or not, leaves the table as it was.
C9_GetReadOnly ==
    [][\A w \in Workers : GetStep(w) => urls' = urls]_vars

C9_Witness ==
    \E w \in Workers :
        /\ pc[w] = "done"
        /\ req[w].method = "GET"
        /\ resp[w].status = FOUND
        /\ \E r \in urls :
              r.id = req[w].arg /\ r.hits = 1 /\ created[r.url] = 1

\* C10: when no handler is running, the hits of a url's row are the 201
\* responses given for the url, and a url without a row was given none.
C10_HitsCount201 ==
    (\A w \in Workers : pc[w] \in {"idle", "done"}) =>
        \A u \in FormUrls :
            /\ RowsOf(u) = {} => created[u] = 0
            /\ \A r \in RowsOf(u) : r.hits = created[u]

C10_Witness ==
    /\ \A w \in Workers : pc[w] \in {"idle", "done"}
    /\ Cardinality(urls) = 2
    /\ \E r \in urls : r.hits = 2 /\ created[r.url] = 2

====
